---------------------------- MODULE Spec2Model ----------------------------
(***************************************************************************)
(* A model of the WhatsApp Web browser-automation subsystem of             *)
(* romc57/PythonApiServer (src/apis/whatsapp): the session authenticator,  *)
(* the chat discovery engine, the message reader/writer and the scraper    *)
(* orchestrator, together with the live web page they drive.               *)
(*                                                                         *)
(* The page is the environment: which indicator elements and QR canvases   *)
(* it shows, the rows of its chat list and the message elements of each    *)
(* conversation.  The program state is the state of the Python objects.    *)
(* Three specifications share the variables:                               *)
(*   SpecAuth  AuthenticationManager.check_authentication_status over      *)
(*             every page state;                                           *)
(*   SpecScan  ChatDiscovery.scan_chat_list over every list of raw rows,   *)
(*             with the clock;                                             *)
(*   Spec      WhatsAppScraper: construction, start_session, get_status,   *)
(*             get_messages, send_message, close_session.                  *)
(***************************************************************************)
EXTENDS Integers, Sequences, FiniteSets, TLC

VARIABLES
    \* ---- the live page (environment) ----
    url_ok,            \* "web.whatsapp.com" in driver.current_url
    indicators,        \* the AUTH_INDICATORS selectors that match a displayed element
    qr_elems,          \* the elements the QR_CODE_SELECTORS match, in DOM order
    rows,              \* the raw chat-row elements of the sidebar, in DOM order
    msgs,              \* conversation -> its message elements, oldest first
    open_chat,         \* the conversation shown in the message pane
    \* ---- WebDriverManager ----
    wdm_driver,        \* WebDriverManager.driver: 0 is None, else a browser handle
    quit_drivers,      \* the browser handles on which quit() was called
    \* ---- AuthenticationManager ----
    mgr_driver,        \* the driver the managers were built on; 0: auth_manager is None
    is_authenticated,  \* AuthenticationManager.is_authenticated
    \* ---- ChatDiscovery ----
    chat_states,       \* ChatDiscovery.chat_states, a dict in insertion order
    last_scan_time,    \* ChatDiscovery.last_scan_time
    \* ---- WhatsAppScraper ----
    constructed,       \* WhatsAppScraper.__init__ has returned
    started,           \* start_session() was called at least once
    chat_id_cache,     \* WhatsAppScraper.chat_id_cache, a dict in insertion order
    last_cache_update, \* WhatsAppScraper.last_cache_update
    monitoring_running,\* WhatsAppScraper._monitoring_running
    monitoring_thread, \* WhatsAppScraper._monitoring_thread: "none", "alive"
    live_monitors,     \* threads started on _background_monitor that have not returned
    updating,          \* where a thread inside _update_chat_cache stands
    session_data,      \* AuthenticationManager.session_data
    session_file,      \* the JSON document at session_data_path
    \* ---- the clock and the observation of the last call ----
    now,               \* time.time()
    ret                \* what the operation that just returned gave back and did

pageVars  == <<url_ok, indicators, qr_elems, rows, msgs, open_chat>>
driverVars == <<wdm_driver, quit_drivers>>
authVars  == <<mgr_driver, is_authenticated>>
scanVars  == <<chat_states, last_scan_time>>
sessionVars == <<session_data, session_file>>
monitorVars == <<monitoring_running, monitoring_thread, live_monitors>>
scraperVars == <<constructed, started, chat_id_cache, last_cache_update, monitorVars>>
vars == <<url_ok, indicators, qr_elems, rows, msgs, open_chat,
          wdm_driver, quit_drivers, mgr_driver, is_authenticated,
          chat_states, last_scan_time,
          constructed, started, chat_id_cache, last_cache_update,
          monitoring_running, monitoring_thread, live_monitors, updating,
          session_data, session_file, now, ret>>

-----------------------------------------------------------------------------
(* Bounds of the model. *)

\* longest list of QR candidate elements on a page
MaxQr == 2
\* longest list of raw chat rows in the sidebar (SpecScan)
MaxRows == 2
\* clock value at which the model starts (time.time() is far above scan_interval)
StartTime == 100
\* the clock of SpecScan advances in steps of TickStep, for MaxScanElapsed seconds
TickStep == 15
MaxScanElapsed == 60
\* message elements the message pane keeps per conversation
MaxMsgs == 3
\* the largest limit argument of get_messages
MaxLimit == 2
\* calls of the scraper start within MaxElapsed seconds of StartTime
MaxElapsed == 20
\* browsers that can be launched in one run
MaxDrivers == 2
\* the pause a caller makes between two calls
WaitStep == 6

(* Program constants. *)

\* ChatDiscovery.scan_interval
scan_interval == 30
\* WhatsAppScraper.cache_update_interval
cache_update_interval == 5
\* AuthenticationManager._is_valid_qr_code: width and height must exceed it
QrMinSize == 50
\* _try_restore_session: max_attempts
RestoreAttempts == 12
\* time.sleep in check_authentication_status
AuthCheckDelay == 5

-----------------------------------------------------------------------------
(* Helpers on sequences. *)

SeqsUpTo(S, n) == UNION {[1..k -> S] : k \in 0..n}

Range(s) == {s[i] : i \in 1..Len(s)}

RECURSIVE SeqFilter(_, _)
SeqFilter(s, keep) ==
    IF s = <<>> THEN <<>>
    ELSE IF Head(s) \in keep THEN <<Head(s)>> \o SeqFilter(Tail(s), keep)
         ELSE SeqFilter(Tail(s), keep)

\* Python's s[-n:] for n > 0: the last n elements (all of them when n >= len)
LastN(s, n) == IF Len(s) <= n THEN s ELSE SubSeq(s, Len(s) - n + 1, Len(s))

-----------------------------------------------------------------------------
(* The observation of a call: one record shape for every operation. *)

\* _load_session_data without a file: {}; .get('authenticated', False) and
\* .get('restore_error') of it
EmptySession == [authenticated |-> FALSE, restore_error |-> ""]

\* the session documents an earlier run of the program can have left
SessionFiles == {EmptySession, [EmptySession EXCEPT !.authenticated = TRUE]}

\* no thread is inside _update_chat_cache
IdleUpdate ==
    [pc |-> "idle", todo |-> <<>>, before |-> <<>>, after |-> <<>>, scan |-> <<>>,
     fresh |-> FALSE, listed |-> {}]

NoRet ==
    [op |-> "none", result |-> FALSE, success |-> "absent", status |-> "",
     authenticated |-> FALSE, error |-> "", names |-> <<>>, messages |-> <<>>,
     chat_name |-> "", clicked |-> <<>>, typed |-> FALSE, touched |-> FALSE,
     scanned |-> FALSE, arg_chat |-> "", arg_contact |-> "", arg_text |-> "",
     arg_limit |-> 0, arg_unread |-> "None", pre |-> <<>>, pre_time |-> 0,
     at |-> 0, returned |-> <<>>, live |-> <<>>, raised |-> FALSE,
     saved |-> FALSE, monitor_started |-> FALSE, auth_called |-> FALSE,
     attempts |-> 0, outcomes |-> <<>>, setup_raised |-> FALSE,
     checks |-> 0, check_passed |-> FALSE, failed |-> FALSE,
     killed |-> FALSE, joined |-> FALSE, refreshes |-> 0,
     session_info |-> EmptySession,
     prev |-> [op |-> "none", chat |-> "", text |-> "", success |-> "absent"]]

-----------------------------------------------------------------------------
(* AuthenticationManager: the authoritative check. *)

\* the strong indicator selectors the model distinguishes (three of AUTH_INDICATORS)
AuthIndicators == {"chat-list", "side", "search"}

\* aria-label values of QR candidate elements
AriaLabels == {"", "Scan me!", "QR code"}

\* 'scan' in aria_label.lower() or 'qr' in aria_label.lower()
AriaSaysQr(label) == label \in {"Scan me!", "QR code"}

QrSizes == {[width |-> 40, height |-> 264], [width |-> 50, height |-> 50],
            [width |-> 264, height |-> 264]}

QrElements == [displayed : BOOLEAN, size : QrSizes, aria : AriaLabels]

\* _is_valid_qr_code
IsValidQrCode(e) == e.size.width > QrMinSize /\ e.size.height > QrMinSize

\* _check_strong_auth_indicators: some indicator selector matches a displayed element
CheckStrongAuthIndicators(inds) == inds # {}

\* _check_qr_code_present: a displayed, size-valid element whose aria-label names a QR
CheckQrCodePresent(qrs) ==
    \E i \in 1..Len(qrs) :
        qrs[i].displayed /\ IsValidQrCode(qrs[i]) /\ AriaSaysQr(qrs[i].aria)

\* _find_qr_code: a displayed, size-valid element (the aria-label is not looked at)
FindQrCode(qrs) ==
    \E i \in 1..Len(qrs) : qrs[i].displayed /\ IsValidQrCode(qrs[i])

\* lines 274-277: the QR search runs only when no strong indicator was found
QrCodeConsulted(strong_auth_found, qrs) ==
    IF ~strong_auth_found THEN CheckQrCodePresent(qrs) ELSE FALSE

\* check_authentication_status on a live driver `drv` whose page is (url, inds, qrs):
\* a driver that was quit raises on current_url, and the except clause returns False
CheckAuthenticationStatus(drv, dead, url, inds, qrs) ==
    IF drv = 0 THEN FALSE
    ELSE IF drv \in dead THEN FALSE
    ELSE IF ~url THEN FALSE
    ELSE LET strong_auth_found == CheckStrongAuthIndicators(inds)
             qr_code_present == QrCodeConsulted(strong_auth_found, qrs)
         IN  strong_auth_found /\ ~qr_code_present

\* the sleep of the check happens only past the driver and URL guards
CheckAuthDuration(drv, dead, url) ==
    IF drv = 0 \/ drv \in dead \/ ~url THEN 0 ELSE AuthCheckDelay

-----------------------------------------------------------------------------
(* SpecAuth: the check applied to every page state. *)

InitAuth ==
    /\ url_ok \in BOOLEAN
    /\ indicators \in SUBSET AuthIndicators
    /\ qr_elems \in SeqsUpTo(QrElements, MaxQr)
    /\ rows = <<>>
    /\ msgs = <<>>
    /\ open_chat = "none"
    /\ wdm_driver = 1
    /\ quit_drivers = {}
    /\ mgr_driver = 1
    /\ is_authenticated = FALSE
    /\ chat_states = <<>>
    /\ last_scan_time = 0
    /\ constructed = TRUE
    /\ started = FALSE
    /\ chat_id_cache = <<>>
    /\ last_cache_update = 0
    /\ monitoring_running = FALSE
    /\ monitoring_thread = "none"
    /\ live_monitors = 0
    /\ now = StartTime
    /\ updating = IdleUpdate
    /\ session_data = EmptySession
    /\ session_file = EmptySession
    /\ ret = NoRet

\* AuthenticationManager.check_authentication_status()
CheckAuthCall ==
    /\ ret.op = "none"
    /\ ret' = [NoRet EXCEPT
                 !.op = "check_authentication_status",
                 !.result = CheckAuthenticationStatus(mgr_driver, quit_drivers,
                                                      url_ok, indicators, qr_elems)]
    /\ UNCHANGED <<pageVars, driverVars, authVars, scanVars, scraperVars, now,
                   updating, sessionVars>>

\* the page changes under the program: the web client shows or hides one element,
\* or the browser leaves or returns to the target host
PageChanges ==
    /\ ret.op # "none"
    /\ \/ /\ url_ok' = ~url_ok
          /\ UNCHANGED <<indicators, qr_elems>>
       \/ /\ \E s \in AuthIndicators :
                indicators' = IF s \in indicators THEN indicators \ {s}
                              ELSE indicators \cup {s}
          /\ UNCHANGED <<url_ok, qr_elems>>
       \/ /\ Len(qr_elems) < MaxQr
          /\ \E e \in QrElements : qr_elems' = Append(qr_elems, e)
          /\ UNCHANGED <<url_ok, indicators>>
       \/ /\ qr_elems # <<>>
          /\ qr_elems' = Tail(qr_elems)
          /\ UNCHANGED <<url_ok, indicators>>
    /\ ret' = NoRet
    /\ UNCHANGED <<rows, msgs, open_chat, driverVars, authVars, scanVars,
                   scraperVars, now, updating, sessionVars>>

NextAuth == CheckAuthCall \/ PageChanges

SpecAuth == InitAuth /\ [][NextAuth]_vars

\* a strong authenticated-UI indicator is visible
StrongVisible == indicators # {}

\* a valid login-QR element is visible: displayed, larger than 50x50, labelled scan/qr
ValidQrVisible ==
    \E i \in 1..Len(qr_elems) :
        /\ qr_elems[i].displayed
        /\ qr_elems[i].size.width > 50 /\ qr_elems[i].size.height > 50
        /\ qr_elems[i].aria \in {"Scan me!", "QR code"}

\* C1: on a page of the target host, check_authentication_status() returns false
\* whenever a strong indicator and a valid login-QR element are both visible, and it
\* returns true only when a strong indicator is visible and no such QR element is.
C1_BothVisibleMeansNotAuthenticated ==
    ret.op = "check_authentication_status" =>
        /\ (StrongVisible /\ ValidQrVisible) => ret.result = FALSE
        /\ ret.result = TRUE => (StrongVisible /\ ~ValidQrVisible)


-----------------------------------------------------------------------------
(* ChatDiscovery: the chat-list scan. *)

\* Python dicts keep insertion order: a dict is a sequence of entries with distinct
\* keys, and assigning to a key that exists replaces the value in place.
DictKeys(d) == {d[i].key : i \in 1..Len(d)}

DictPut(d, e) ==
    IF \E i \in 1..Len(d) : d[i].key = e.key
    THEN [i \in 1..Len(d) |-> IF d[i].key = e.key THEN e ELSE d[i]]
    ELSE Append(d, e)

DictGet(d, k) == LET i == CHOOSE j \in 1..Len(d) : d[j].key = k IN d[i]

\* str.strip() on the strings of the model
Strip(s) ==
    CASE s = " hi " -> "hi"
      [] s = "  "   -> ""
      [] OTHER      -> s

\* the name scan_chat_list skips besides "Unknown" (a Hebrew literal in the source,
\* line 61; the model writes it in Latin letters)
IgnoredName == "SelfNotes"

\* A raw row element of the sidebar: its attributes, the title of its first
\* span[title]/div[title] child ("" when it has none), the number in its unread
\* badge (0: no badge) and the conversation a click on it opens.
RowKinds ==
    { [id |-> "r1", data_id |-> "", testid |-> "cell-frame-container", tabindex |-> "0",
       title |-> "Alice", aria |-> "", child_title |-> "Alice", unread |-> 0,
       conv |-> "Alice"],
      [id |-> "", data_id |-> "d2", testid |-> "cell-frame-container", tabindex |-> "0",
       title |-> "Bob", aria |-> "", child_title |-> "Bob", unread |-> 1,
       conv |-> "Bob"],
      [id |-> "", data_id |-> "", testid |-> "cell-frame-container", tabindex |-> "0",
       title |-> "Carol", aria |-> "", child_title |-> "Carol", unread |-> 0,
       conv |-> "Carol"],
      [id |-> "", data_id |-> "", testid |-> "cell-frame-container", tabindex |-> "0",
       title |-> "Dave", aria |-> "", child_title |-> "Dave", unread |-> 1,
       conv |-> "Dave"],
      [id |-> "r4", data_id |-> "", testid |-> "cell-frame-container", tabindex |-> "-1",
       title |-> "Archived", aria |-> "", child_title |-> "Archived", unread |-> 0,
       conv |-> "none"],
      [id |-> "r5", data_id |-> "", testid |-> "cell-frame-container", tabindex |-> "0",
       title |-> "SelfNotes", aria |-> "", child_title |-> "SelfNotes", unread |-> 0,
       conv |-> "SelfNotes"] }

\* element ids are unique in a document, and a conversation has one row
UniqueIds(rs) ==
    \A i, j \in 1..Len(rs) :
        i # j => /\ rs[i].id # "" => rs[i].id # rs[j].id
                 /\ rs[i].conv # rs[j].conv

\* _is_chat_element: the strict validator
IsChatElement(e) ==
    /\ e.testid = "cell-frame-container"
    /\ e.tabindex = "0"
    /\ e.title # ""
    /\ Len(Strip(e.child_title)) >= 2

\* _extract_chat_name: title, then aria-label, then the child's title
ExtractChatName(e) ==
    IF ~IsChatElement(e) THEN "Unknown"
    ELSE IF Len(Strip(e.title)) > 1 THEN Strip(e.title)
    ELSE IF Len(Strip(e.aria)) > 1 THEN Strip(e.aria)
    ELSE Strip(e.child_title)

\* _get_chat_dom_id: id, then data-id, then data-testid (every row of the model
\* carries a data-testid, so data-chat-id and the geometry hash are not reached)
GetChatDomId(e) ==
    IF e.id # "" THEN "dom_" \o e.id
    ELSE IF e.data_id # "" THEN "dom_" \o e.data_id
    ELSE "dom_" \o e.testid

\* the reference to a row element that the scan stores: the conversation it opens,
\* and whether the document it belongs to was replaced by a navigation since
Handle(e) == [conv |-> e.conv, stale |-> FALSE]

\* lines 53-83: the loop over the raw rows, with its counter valid_chat_count
RECURSIVE ScanRows(_, _, _, _)
ScanRows(rs, new_chat_states, valid_chat_count, current_time) ==
    IF rs = <<>> THEN new_chat_states
    ELSE LET element == Head(rs)
             name == ExtractChatName(element)
         IN  IF name = "Unknown" \/ name = IgnoredName
             THEN ScanRows(Tail(rs), new_chat_states, valid_chat_count, current_time)
             ELSE ScanRows(Tail(rs),
                           DictPut(new_chat_states,
                                   [key |-> GetChatDomId(element),
                                    name |-> name,
                                    unread_count |-> element.unread,
                                    dom_element |-> Handle(element),
                                    last_scan |-> current_time,
                                    order |-> valid_chat_count]),
                           valid_chat_count + 1, current_time)

\* line 37: the rate limit
ScanSkippedWrongInterval(current_time, last) == current_time - last < cache_update_interval
ScanSkipped(current_time, last) == current_time - last < scan_interval

\* scan_chat_list: the mapping it returns and stores
ScanChatList(rs, states, last, current_time) ==
    IF ScanSkipped(current_time, last) THEN states
    ELSE ScanRows(rs, <<>>, 0, current_time)

\* a navigation replaces the document: every handle taken before it is stale
StaleAll(d) ==
    [i \in 1..Len(d) |-> [d[i] EXCEPT !.dom_element.stale = TRUE]]

-----------------------------------------------------------------------------
(* SpecScan: scan_chat_list over every list of raw rows, with the clock. *)

RowLists == {rs \in SeqsUpTo(RowKinds, MaxRows) : UniqueIds(rs)}

InitScan ==
    /\ url_ok = TRUE
    /\ indicators = {"chat-list"}
    /\ qr_elems = <<>>
    /\ rows \in RowLists
    /\ msgs = <<>>
    /\ open_chat = "none"
    /\ wdm_driver = 1
    /\ quit_drivers = {}
    /\ mgr_driver = 1
    /\ is_authenticated = TRUE
    /\ chat_states = <<>>
    /\ last_scan_time = 0
    /\ constructed = TRUE
    /\ started = FALSE
    /\ chat_id_cache = <<>>
    /\ last_cache_update = 0
    /\ monitoring_running = FALSE
    /\ monitoring_thread = "none"
    /\ live_monitors = 0
    /\ now = StartTime
    /\ updating = IdleUpdate
    /\ session_data = EmptySession
    /\ session_file = EmptySession
    /\ ret = NoRet

\* ChatDiscovery.scan_chat_list()
ScanCall ==
    /\ LET skipped == ScanSkipped(now, last_scan_time)
           navigates == ~skipped /\ ~url_ok
           result == ScanChatList(rows, chat_states, last_scan_time, now)
       IN  /\ chat_states' = result
           /\ last_scan_time' = IF skipped THEN last_scan_time ELSE now
           /\ url_ok' = IF navigates THEN TRUE ELSE url_ok
           /\ open_chat' = IF navigates THEN "none" ELSE open_chat
           /\ ret' = [NoRet EXCEPT !.op = "scan_chat_list",
                                   !.pre = chat_states,
                                   !.pre_time = last_scan_time,
                                   !.at = now,
                                   !.returned = result,
                                   !.scanned = ~skipped,
                                   !.touched = ~skipped]
    /\ UNCHANGED <<indicators, qr_elems, rows, msgs, driverVars, authVars,
                   scraperVars, now, updating, sessionVars>>

\* the clock advances
TickScan ==
    /\ now + TickStep <= StartTime + MaxScanElapsed
    /\ now' = now + TickStep
    /\ ret' = NoRet
    /\ UNCHANGED <<pageVars, driverVars, authVars, scanVars, scraperVars,
                   updating, sessionVars>>

\* the web client re-renders its chat list: a row appears at the top, or the last
\* row leaves
RowsChange ==
    /\ \/ /\ Len(rows) < MaxRows
          /\ \E e \in RowKinds :
                /\ UniqueIds(<<e>> \o rows)
                /\ rows' = <<e>> \o rows
       \/ /\ rows # <<>>
          /\ rows' = SubSeq(rows, 1, Len(rows) - 1)
    /\ ret' = NoRet
    /\ UNCHANGED <<url_ok, indicators, qr_elems, msgs, open_chat, driverVars,
                   authVars, scanVars, scraperVars, now, updating, sessionVars>>

\* the browser leaves the target host
UrlDrifts ==
    /\ url_ok
    /\ url_ok' = FALSE
    /\ chat_states' = StaleAll(chat_states)
    /\ ret' = NoRet
    /\ UNCHANGED <<indicators, qr_elems, rows, msgs, open_chat, driverVars,
                   authVars, last_scan_time, scraperVars, now, updating, sessionVars>>

NextScan == ScanCall \/ TickScan \/ RowsChange \/ UrlDrifts

SpecScan == InitScan /\ [][NextScan]_vars

\* the rows of the live list that the validator accepts and that are not skipped
AcceptedNow(e) == ExtractChatName(e) \notin {"Unknown", IgnoredName}

\* C3: after a scan that was not rate-limited, the order values of the entries of the
\* returned mapping are exactly 0..n-1, n the number of entries, without gaps or
\* duplicates, whatever rows were rejected and whatever ids the accepted rows carry.
C3_OrdersContiguous ==
    (ret.op = "scan_chat_list" /\ ret.scanned) =>
        /\ {ret.returned[i].order : i \in 1..Len(ret.returned)}
               = 0..(Len(ret.returned) - 1)
        /\ \A i, j \in 1..Len(ret.returned) :
               i # j => ret.returned[i].order # ret.returned[j].order

\* C4: a scan_chat_list() call made less than scan_interval after the start of the
\* previous scan that ran returns the stored mapping unchanged, touches the page in
\* no way and leaves last_scan_time alone, whatever the live chat list has become.
C4_RateLimitedScanIsIdempotent ==
    (ret.op = "scan_chat_list" /\ ret.at - ret.pre_time < 30) =>
        /\ ret.returned = ret.pre
        /\ chat_states = ret.pre
        /\ last_scan_time = ret.pre_time
        /\ ~ret.touched

\* a rate-limited call met a live list that no longer matches the stored mapping
C4_Witness ==
    /\ ret.op = "scan_chat_list"
    /\ ret.at - ret.pre_time < 30
    /\ ret.pre # <<>>
    /\ ret.returned # ScanRows(rows, <<>>, 0, ret.pre_time)

-----------------------------------------------------------------------------
(* The page-touching code of ChatDiscovery, MessageReader and WhatsAppScraper, *)
(* written over a record w of everything it reads and writes: the page         *)
(* (url_ok, rows, msgs, open_chat), the discovery state (chat_states,          *)
(* last_scan_time), the cache (chat_id_cache, last_cache_update), the clock t, *)
(* and what was done to the page (clicked, typed, scanned; failed: a click     *)
(* raised).                                                                   *)

World ==
    [url_ok |-> url_ok, rows |-> rows, msgs |-> msgs, open_chat |-> open_chat,
     chat_states |-> chat_states, last_scan_time |-> last_scan_time,
     chat_id_cache |-> chat_id_cache, last_cache_update |-> last_cache_update,
     t |-> now, clicked |-> <<>>, typed |-> FALSE, scanned |-> FALSE,
     failed |-> FALSE]

\* time.sleep(d)
Sleep(w, d) == [w EXCEPT !.t = @ + d]

\* scan_chat_list lines 42-45: driver.get when the browser has left the host
ScanNavigate(w) ==
    IF w.url_ok THEN w
    ELSE Sleep([w EXCEPT !.url_ok = TRUE, !.open_chat = "none",
                         !.chat_id_cache = StaleAll(@)], 3)

\* scan_chat_list on a live driver
ScanW(w) ==
    IF ScanSkipped(w.t, w.last_scan_time) THEN w
    ELSE LET w1 == ScanNavigate(w)
         IN  [w1 EXCEPT !.chat_states = ScanRows(w1.rows, <<>>, 0, w.t),
                        !.last_scan_time = w.t,
                        !.scanned = TRUE]

\* sorted(items, key=order): stable, smallest order first
RECURSIVE SortByOrder(_)
SortByOrder(d) ==
    IF d = <<>> THEN <<>>
    ELSE LET i == CHOOSE i \in 1..Len(d) :
                     /\ \A j \in 1..Len(d) : d[i].order <= d[j].order
                     /\ \A j \in 1..(i - 1) : d[j].order > d[i].order
         IN  <<d[i]>> \o SortByOrder(SubSeq(d, 1, i - 1) \o SubSeq(d, i + 1, Len(d)))

\* _update_chat_cache lines 257-273: clear, then one entry per name in order
RECURSIVE FillCache(_, _)
FillCache(sorted_chats, cache) ==
    IF sorted_chats = <<>> THEN cache
    ELSE LET state == Head(sorted_chats)
         IN  IF state.name # "Unknown"
             THEN FillCache(Tail(sorted_chats),
                            DictPut(cache, [key |-> state.name,
                                            dom_element |-> state.dom_element,
                                            unread_count |-> state.unread_count,
                                            order |-> state.order]))
             ELSE FillCache(Tail(sorted_chats), cache)

BuildCache(states) == FillCache(SortByOrder(states), <<>>)

\* _update_chat_cache
UpdateChatCache(w) ==
    LET w1 == ScanW(w)
    IN  [w1 EXCEPT !.chat_id_cache = BuildCache(w1.chat_states)]

\* _update_chat_cache_if_needed
UpdateChatCacheIfNeeded(w) ==
    IF w.t - w.last_cache_update > cache_update_interval
    THEN [UpdateChatCache(w) EXCEPT !.last_cache_update = w.t]
    ELSE w

\* _force_update_chat_cache
ForceUpdateChatCache(w) ==
    LET w1 == UpdateChatCache(w)
    IN  [w1 EXCEPT !.last_cache_update = w1.t]

\* list(self.chat_id_cache.keys())
AvailableChatsButFirst(cache) == [i \in 1..(Len(cache) - 1) |-> cache[i + 1].key]
AvailableChats(cache) == [i \in 1..Len(cache) |-> cache[i].key]

\* element.click() succeeds on an element of the current document that is still
\* attached; otherwise Selenium raises
Clickable(h, rs) == ~h.stale /\ \E i \in 1..Len(rs) : rs[i].conv = h.conv

\* the web client's reaction to a click on a chat row: the conversation opens and
\* its unread badge goes away
Click(w, h) ==
    [w EXCEPT !.open_chat = h.conv,
              !.rows = [i \in 1..Len(@) |->
                           IF @[i].conv = h.conv THEN [@[i] EXCEPT !.unread = 0]
                           ELSE @[i]],
              !.clicked = Append(@, h)]

\* _extract_message_data: the text is stripped, is_from_me comes from the class
MessageData(e) ==
    [text |-> Strip(e.text), is_from_me |-> e.out,
     sender |-> IF e.out THEN "Me" ELSE "Unknown"]

RECURSIVE KeepNonEmpty(_)
KeepNonEmpty(elements) ==
    IF elements = <<>> THEN <<>>
    ELSE LET message_data == MessageData(Head(elements))
         IN  IF Strip(message_data.text) # ""
             THEN <<message_data>> \o KeepNonEmpty(Tail(elements))
             ELSE KeepNonEmpty(Tail(elements))

\* line 109: message_elements[-limit:] if limit else message_elements
FirstN(s, n) == IF Len(s) <= n THEN s ELSE SubSeq(s, 1, n)
MessagesToExtractOldest(message_elements, limit) ==
    IF limit # 0 THEN FirstN(message_elements, limit) ELSE message_elements
MessagesToExtract(message_elements, limit) ==
    IF limit # 0 THEN LastN(message_elements, limit) ELSE message_elements

\* _extract_messages_from_opened_chat
ExtractMessagesFromOpenedChat(message_elements, limit) ==
    KeepNonEmpty(MessagesToExtract(message_elements, limit))

\* read_messages_from_chat: [w, success, messages]
ReadMessagesFromChat(w, chat_element, limit) ==
    IF ~Clickable(chat_element, w.rows)
    THEN [w |-> [w EXCEPT !.failed = TRUE], success |-> FALSE, messages |-> <<>>]
    ELSE LET w1 == Sleep(Click(w, chat_element), 4)
         IN  [w |-> w1, success |-> TRUE,
              messages |-> ExtractMessagesFromOpenedChat(w1.msgs[w1.open_chat], limit)]

\* messages carry no "is_read" key when they are read: msg.get("is_read", True)
IsReadUnlessReceived(msg) == msg.is_from_me
IsRead(msg) == TRUE

RECURSIVE SelectRead(_, _)
SelectRead(messages, want_read) ==
    IF messages = <<>> THEN <<>>
    ELSE IF IsRead(Head(messages)) = want_read
         THEN <<Head(messages)>> \o SelectRead(Tail(messages), want_read)
         ELSE SelectRead(Tail(messages), want_read)

\* _filter_messages_by_read_status
FilterMessagesByReadStatus(messages, unread) ==
    IF unread = "None" THEN messages
    ELSE IF unread = "True" THEN SelectRead(messages, FALSE)
    ELSE SelectRead(messages, TRUE)

\* line 373: [msg for msg in result["messages"] if not msg.get("is_from_me", True)]
RECURSIVE NotFromMe(_)
KeepAllMessages(messages) == messages
NotFromMe(messages) ==
    IF messages = <<>> THEN <<>>
    ELSE IF ~Head(messages).is_from_me
         THEN <<Head(messages)>> \o NotFromMe(Tail(messages))
         ELSE NotFromMe(Tail(messages))

\* messages[-limit:] if limit else messages
Limited(messages, limit) == IF limit # 0 THEN LastN(messages, limit) ELSE messages

\* _format_message_response
FormatMessageResponse(w, messages, chat_name, status) ==
    [w |-> w, success |-> "true", messages |-> messages, chat_name |-> chat_name,
     status |-> status, error |-> "", names |-> <<>>]

ErrorResponse(w, success, error, names) ==
    [w |-> w, success |-> success, messages |-> <<>>, chat_name |-> "",
     status |-> "", error |-> error, names |-> names]

\* _get_messages_from_cached_chat
GetMessagesFromCachedChat(w, chat_name, limit, unread) ==
    IF chat_name \notin DictKeys(w.chat_id_cache)
    THEN ErrorResponse(w, "false", "not found in cache", <<>>)
    ELSE LET result == ReadMessagesFromChat(
                           w, DictGet(w.chat_id_cache, chat_name).dom_element, limit)
         IN  IF result.success /\ result.messages # <<>>
             THEN LET messages == FilterMessagesByReadStatus(result.messages, unread)
                      limited_messages == Limited(messages, limit)
                  IN  FormatMessageResponse(result.w, limited_messages, chat_name,
                                            "Retrieved")
             ELSE FormatMessageResponse(result.w, <<>>, chat_name, "No messages found")

\* the cached chats with unread_count > 0, in dict order (lines 357-360)
UnreadChats(cache) ==
    SeqFilter(cache, {cache[i] : i \in {j \in 1..Len(cache) : cache[j].unread_count > 0}})

\* _get_unread_messages_from_any_chat
GetUnreadMessagesFromAnyChat(w, limit) ==
    LET unread_chats == UnreadChats(w.chat_id_cache)
    IN  IF unread_chats = <<>>
        THEN FormatMessageResponse(w, <<>>, "", "No unread messages")
        ELSE LET cached_data == unread_chats[1]
                 result == ReadMessagesFromChat(w, cached_data.dom_element, limit)
             IN  IF result.success /\ result.messages # <<>>
                 THEN FormatMessageResponse(
                          result.w, Limited(NotFromMe(result.messages), limit),
                          cached_data.key, "Retrieved unread")
                 ELSE FormatMessageResponse(result.w, <<>>, cached_data.key,
                                            "No unread messages found")

\* lines 400-420: the first chat in order that yields messages
RECURSIVE TryChats(_, _, _)
TryChats(w, sorted_chats, limit) ==
    LET cached_data == Head(sorted_chats)
        result == ReadMessagesFromChat(w, cached_data.dom_element, limit)
    IN  IF result.success /\ result.messages # <<>>
        THEN FormatMessageResponse(result.w, result.messages, cached_data.key,
                                   "Retrieved latest")
        ELSE IF Tail(sorted_chats) = <<>>
             THEN FormatMessageResponse(result.w, <<>>, cached_data.key,
                                        "No messages found in any chat")
             ELSE TryChats(result.w, Tail(sorted_chats), limit)

\* _get_latest_messages_from_any_chat
GetLatestMessagesFromAnyChat(w, limit) ==
    LET w1 == ForceUpdateChatCache(w)
        sorted_chats == SortByOrder(w1.chat_id_cache)
    IN  IF sorted_chats = <<>>
        THEN FormatMessageResponse(w1, <<>>, "", "No chats found")
        ELSE TryChats(w1, sorted_chats, limit)

\* str.lower() on the strings of the model, as the sequence of its characters
Lower(s) ==
    CASE s = "Alice"     -> <<"a", "l", "i", "c", "e">>
      [] s = "Bob"       -> <<"b", "o", "b">>
      [] s = "Bobby"     -> <<"b", "o", "b", "b", "y">>
      [] s = "Bob Group" -> <<"b", "o", "b", " ", "g", "r", "o", "u", "p">>
      [] s = "ali"       -> <<"a", "l", "i">>
      [] s = "b"         -> <<"b">>
      [] s = "BOB"       -> <<"b", "o", "b">>
      [] s = "zed"       -> <<"z", "e", "d">>
      [] s = "group"     -> <<"g", "r", "o", "u", "p">>

\* the `in` operator of two strings
IsSubstring(sub, str) ==
    \E i \in 0..(Len(str) - Len(sub)) : SubSeq(str, i + 1, i + Len(sub)) = sub

\* contact.lower() in name.lower() and "group" not in name.lower()
ContactMatchesGroupsToo(contact, name) == IsSubstring(Lower(contact), Lower(name))
ContactMatches(contact, name) ==
    /\ IsSubstring(Lower(contact), Lower(name))
    /\ ~IsSubstring(Lower("group"), Lower(name))

\* _determine_target_chat ("" stands for None)
DetermineTargetChat(cache, chat, contact) ==
    IF chat # "" THEN chat
    ELSE IF contact # ""
         THEN LET hits == {i \in 1..Len(cache) : ContactMatches(contact, cache[i].key)}
              IN  IF hits = {} THEN ""
                  ELSE cache[CHOOSE i \in hits : \A j \in hits : i <= j].key
         ELSE ""

\* get_messages past the authentication check (lines 217-232)
GetMessagesAuthenticated(w, limit, unread, chat, contact) ==
    LET w1 == UpdateChatCacheIfNeeded(w)
        target_chat == DetermineTargetChat(w1.chat_id_cache, chat, contact)
    IN  IF target_chat # ""
        THEN GetMessagesFromCachedChat(w1, target_chat, limit, unread)
        ELSE IF unread = "True"
             THEN GetUnreadMessagesFromAnyChat(w1, limit)
             ELSE GetLatestMessagesFromAnyChat(w1, limit)

\* the web client's reaction to a sent or received message: the conversation's row
\* moves to the top of the chat list
MoveToTop(rs, conv) ==
    LET i == CHOOSE i \in 1..Len(rs) : rs[i].conv = conv
    IN  <<rs[i]>> \o SubSeq(rs, 1, i - 1) \o SubSeq(rs, i + 1, Len(rs))

\* the message pane keeps the most recent MaxMsgs message elements
AppendMessage(elements, e) == LastN(Append(elements, e), MaxMsgs)

\* send_message_to_chat: the compose box exists when a conversation is open
SendMessageToChat(w, message) ==
    IF w.open_chat = "none"
    THEN ErrorResponse(w, "false", "Message input box not found", <<>>)
    ELSE LET w1 == Sleep([w EXCEPT
                            !.msgs[w.open_chat] =
                                AppendMessage(@, [text |-> message, out |-> TRUE]),
                            !.rows = MoveToTop(@, w.open_chat),
                            !.typed = TRUE], 4)
         IN  [w |-> w1, success |-> "true", messages |-> <<>>, chat_name |-> "",
              status |-> "Message sent successfully", error |-> "", names |-> <<>>]

\* send_message past the authentication check (lines 448-476); the cache it looked
\* the chat up in is returned with the response
SendMessageAuthenticated(w, chat_name, message) ==
    LET w1 == ForceUpdateChatCache(w)
    IN  IF chat_name \notin DictKeys(w1.chat_id_cache)
        THEN [resp |-> ErrorResponse(w1, "false", "not found in cache",
                                     AvailableChats(w1.chat_id_cache)),
              lookup |-> w1.chat_id_cache]
        ELSE LET dom_element == DictGet(w1.chat_id_cache, chat_name).dom_element
             IN  IF ~Clickable(dom_element, w1.rows)
                 THEN [resp |-> ErrorResponse([w1 EXCEPT !.failed = TRUE], "false",
                                              "click raised", <<>>),
                       lookup |-> w1.chat_id_cache]
                 ELSE LET w2 == Sleep(Click(w1, dom_element), 3)
                          result == SendMessageToChat(w2, message)
                      IN  [resp |-> IF result.success = "true"
                                    THEN [result EXCEPT
                                            !.w = ForceUpdateChatCache(result.w)]
                                    ELSE result,
                           lookup |-> w1.chat_id_cache]

-----------------------------------------------------------------------------
(* WhatsAppScraper.get_messages and send_message as steps of the program, and *)
(* the web client around them.                                                *)

Convs == {"Alice", "Bob"}

\* a row of the chat list for a conversation, as the web client renders it
ChatRow(conv, unread) ==
    [id |-> conv, data_id |-> "", testid |-> "cell-frame-container",
     tabindex |-> "0", title |-> conv, aria |-> "", child_title |-> conv,
     unread |-> unread, conv |-> conv]

\* a second conversation whose contact is also called Alice: its row carries the same
\* title as Alice's row
Namesake == "Alice2"
NamesakeRow(unread) ==
    [ChatRow(Namesake, unread) EXCEPT !.title = "Alice", !.child_title = "Alice"]

\* message elements: received text, received element without text (media), and
\* what send_message typed
Received == {[text |-> "hi", out |-> FALSE], [text |-> "", out |-> FALSE]}
SendTexts == {"hi", " hi "}
ChatArgs == {"Alice", "Zed"}
Targets == {[chat |-> c, contact |-> ""] : c \in ChatArgs \cup {""}}
               \cup {[chat |-> "", contact |-> "ali"]}
UnreadArgs == {"None", "True", "False"}

Authed ==
    CheckAuthenticationStatus(mgr_driver, quit_drivers, url_ok, indicators, qr_elems)
AuthDur == CheckAuthDuration(mgr_driver, quit_drivers, url_ok)

\* the state a run of page-touching code leaves behind
Commit(w) ==
    /\ url_ok' = w.url_ok
    /\ rows' = w.rows
    /\ msgs' = w.msgs
    /\ open_chat' = w.open_chat
    /\ chat_states' = w.chat_states
    /\ last_scan_time' = w.last_scan_time
    /\ chat_id_cache' = w.chat_id_cache
    /\ last_cache_update' = w.last_cache_update
    /\ now' = w.t

CallFits == constructed /\ now < StartTime + MaxElapsed

\* what is remembered of the last call while only time passes: a successful send
PrevOf(r) ==
    IF r.op = "send_message" /\ r.success = "true"
    THEN [op |-> r.op, chat |-> r.arg_chat, text |-> r.arg_text, success |-> r.success]
    ELSE IF r.op = "none" THEN r.prev
    ELSE NoRet.prev

\* lines 214-215 and 445-446: the reply when the authoritative check returned False
\* carries no "success" key
ReturnNotAuthenticatedAfterUpdate(w) ==
    ErrorResponse(ForceUpdateChatCache(w), "absent", "Not authenticated", <<>>)
ReturnNotAuthenticated(w) == ErrorResponse(w, "absent", "Not authenticated", <<>>)

Observed(base, resp) ==
    [base EXCEPT !.success = resp.success, !.messages = resp.messages,
                 !.chat_name = resp.chat_name, !.status = resp.status,
                 !.error = resp.error, !.names = resp.names,
                 !.clicked = resp.w.clicked, !.typed = resp.w.typed,
                 !.scanned = resp.w.scanned, !.failed = resp.w.failed]

\* WhatsAppScraper.get_messages(limit, unread, chat, contact), its arguments drawn
\* from the given sets
GetMessages(limits, unreads, targets) ==
    /\ CallFits
    /\ \E limit \in limits, unread \in unreads, target \in targets :
          LET base == [NoRet EXCEPT !.op = "get_messages", !.arg_limit = limit,
                                    !.arg_unread = unread,
                                    !.arg_chat = target.chat,
                                    !.arg_contact = target.contact,
                                    !.at = now, !.live = rows,
                                    !.prev = PrevOf(ret)]
          IN  IF mgr_driver = 0
              THEN /\ ret' = [base EXCEPT !.raised = TRUE]
                   /\ UNCHANGED <<url_ok, rows, msgs, open_chat, scanVars,
                                  chat_id_cache, last_cache_update, now>>
              ELSE IF ~Authed
                   THEN LET resp == ReturnNotAuthenticated(Sleep(World, AuthDur))
                        IN  /\ Commit(resp.w)
                            /\ ret' = [Observed(base, resp) EXCEPT !.checks = 1]
                   ELSE LET resp == GetMessagesAuthenticated(
                                        Sleep(World, AuthDur), limit, unread,
                                        target.chat, target.contact)
                        IN  /\ Commit(resp.w)
                            /\ ret' = [Observed(base, resp) EXCEPT
                                         !.checks = 1, !.check_passed = TRUE]
    /\ UNCHANGED <<indicators, qr_elems, driverVars, authVars, constructed, started,
                   monitorVars, updating, sessionVars>>

\* WhatsAppScraper.send_message(chat_name, message), its arguments drawn from the
\* given sets
SendMessage(chat_names, messages) ==
    /\ CallFits
    /\ \E chat_name \in chat_names, message \in messages :
          LET base == [NoRet EXCEPT !.op = "send_message", !.arg_chat = chat_name,
                                    !.arg_text = message, !.at = now,
                                    !.live = rows, !.prev = PrevOf(ret)]
          IN  IF mgr_driver = 0
              THEN /\ ret' = [base EXCEPT !.raised = TRUE]
                   /\ UNCHANGED <<url_ok, rows, msgs, open_chat, scanVars,
                                  chat_id_cache, last_cache_update, now>>
              ELSE IF ~Authed
                   THEN LET resp == ReturnNotAuthenticated(Sleep(World, AuthDur))
                        IN  /\ Commit(resp.w)
                            /\ ret' = [Observed(base, resp) EXCEPT !.checks = 1]
                   ELSE LET sent == SendMessageAuthenticated(
                                        Sleep(World, AuthDur), chat_name, message)
                        IN  /\ Commit(sent.resp.w)
                            /\ ret' = [Observed(base, sent.resp) EXCEPT
                                         !.pre = sent.lookup, !.checks = 1,
                                         !.check_passed = TRUE]
    /\ UNCHANGED <<indicators, qr_elems, driverVars, authVars, constructed, started,
                   monitorVars, updating, sessionVars>>

\* calls on an authenticated session, with every argument combination
GetMessagesCall == GetMessages(1..MaxLimit, UnreadArgs, Targets)
SendMessageCall == SendMessage(ChatArgs, SendTexts)

\* calls at any point of the scraper's life
GetMessagesAnytime ==
    GetMessages({1}, {"False"}, {[chat |-> "Alice", contact |-> ""],
                                 [chat |-> "", contact |-> ""]})
SendMessageAnytime == SendMessage({"Alice"}, {"hi"})

\* one cycle of _background_monitor: back to the host if needed, then a scan
MonitorCycle ==
    /\ CallFits
    /\ monitoring_running /\ monitoring_thread = "alive" /\ is_authenticated
    /\ mgr_driver # 0 /\ mgr_driver \notin quit_drivers
    /\ LET w == IF url_ok THEN World
                ELSE Sleep([World EXCEPT !.url_ok = TRUE, !.open_chat = "none",
                                         !.chat_id_cache = StaleAll(@),
                                         !.chat_states = StaleAll(@)], 2)
       IN  Commit(ScanW(w))
    /\ ret' = NoRet
    /\ UNCHANGED <<indicators, qr_elems, driverVars, authVars, constructed, started,
                   monitorVars, updating, sessionVars>>

\* TickStep later a message has arrived in a conversation: its element is appended,
\* its row gets the unread badge (unless the conversation is open) and moves to the
\* top of the list
MessageArrives ==
    /\ \E conv \in Convs, e \in Received :
          LET badge == IF open_chat = conv THEN 0 ELSE 1
              others == SeqFilter(rows, {r \in Range(rows) : r.conv # conv})
          IN  /\ msgs' = [msgs EXCEPT ![conv] = AppendMessage(@, e)]
              /\ rows' = <<ChatRow(conv, badge)>> \o others
    /\ now < StartTime + MaxElapsed
    /\ now' = now + TickStep
    /\ ret' = NoRet
    /\ UNCHANGED <<url_ok, indicators, qr_elems, open_chat, driverVars, authVars,
                   scanVars, scraperVars, updating, sessionVars>>

\* TickStep later the last conversation of the list has been archived on another
\* device
ChatLeaves ==
    /\ rows # <<>>
    /\ rows' = SubSeq(rows, 1, Len(rows) - 1)
    /\ open_chat' = IF open_chat = rows[Len(rows)].conv THEN "none" ELSE open_chat
    /\ now < StartTime + MaxElapsed
    /\ now' = now + TickStep
    /\ ret' = NoRet
    /\ UNCHANGED <<url_ok, indicators, qr_elems, msgs, driverVars, authVars,
                   scanVars, scraperVars, updating, sessionVars>>

\* the clock advances between calls
Tick ==
    /\ now < StartTime + MaxElapsed
    /\ now' = now + WaitStep
    /\ ret' = [NoRet EXCEPT !.prev = PrevOf(ret)]
    /\ UNCHANGED <<pageVars, driverVars, authVars, scanVars, scraperVars,
                   updating, sessionVars>>

InitHistories ==
    {<<[text |-> "hi", out |-> FALSE]>>,
     <<[text |-> "hi", out |-> FALSE], [text |-> "", out |-> FALSE],
       [text |-> "", out |-> FALSE]>>,
     <<[text |-> "hi", out |-> TRUE], [text |-> "hi", out |-> FALSE]>>}

\* an authenticated session: the browser is on the logged-in page, the managers
\* exist and the monitor thread runs
InitMsg ==
    /\ url_ok = TRUE
    /\ indicators = {"chat-list"}
    /\ qr_elems = <<>>
    /\ rows \in {<<ChatRow("Bob", 1), ChatRow("Alice", 0)>>,
                 <<ChatRow("Alice", 1), ChatRow("Bob", 0)>>,
                 <<ChatRow("Alice", 0), ChatRow("Bob", 1), NamesakeRow(1)>>}
    /\ msgs \in {[c \in Convs \cup {Namesake} |->
                        IF c = "Alice" THEN h ELSE <<Head(h)>>] :
                    h \in InitHistories}
    /\ open_chat = "none"
    /\ wdm_driver = 1
    /\ quit_drivers = {}
    /\ mgr_driver = 1
    /\ is_authenticated = TRUE
    /\ chat_states = <<>>
    /\ last_scan_time = 0
    /\ constructed = TRUE
    /\ started = TRUE
    /\ chat_id_cache = <<>>
    /\ last_cache_update = 0
    /\ monitoring_running = TRUE
    /\ monitoring_thread = "alive"
    /\ live_monitors = 1
    /\ now = StartTime
    /\ updating = IdleUpdate
    /\ session_data = [EmptySession EXCEPT !.authenticated = TRUE]
    /\ session_file = [EmptySession EXCEPT !.authenticated = TRUE]
    /\ ret = NoRet

NextMsg ==
    \/ GetMessagesCall
    \/ SendMessageCall
    \/ MonitorCycle
    \/ MessageArrives
    \/ ChatLeaves
    \/ Tick

SpecMsg == InitMsg /\ [][NextMsg]_vars

\* what a cache says about the chat list: names, order and handles
CacheView(cache) ==
    [i \in 1..Len(cache) |->
        [name |-> cache[i].key, order |-> cache[i].order,
         dom_element |-> cache[i].dom_element]]

\* the cache a rebuild from the chat list rs produces
LiveCache(rs) == BuildCache(ScanRows(rs, <<>>, 0, 0))

\* C5: every send_message on an authenticated session clicks a handle taken from a
\* cache rebuilt from the live chat list as it was at the time of the call, and
\* after a successful send the cache reflects the live chat list after the send,
\* however recently a scan ran.
C5_SendUsesLiveCache ==
    ret.op = "send_message" =>
        /\ ret.clicked # <<>> => CacheView(ret.pre) = CacheView(LiveCache(ret.live))
        /\ ret.success = "true" => CacheView(chat_id_cache) = CacheView(LiveCache(rows))

\* C6: get_messages(limit=N, chat=X) with unread None or False on a cached chat X
\* returns at most N messages, and when the opened chat holds M < N message
\* elements with non-empty text it returns exactly those M with success true.
C6_LimitAndShortChat ==
    (/\ ret.op = "get_messages"
     /\ ret.arg_chat # ""
     /\ ret.arg_unread \in {"None", "False"}
     /\ ret.clicked # <<>>) =>
        LET M == Len(KeepNonEmpty(msgs[ret.clicked[1].conv]))
            N == ret.arg_limit
        IN  /\ Len(ret.messages) <= N
            /\ M < N => (Len(ret.messages) = M /\ ret.success = "true")

\* C7: no message in the result of a get_messages call with unread=True has
\* is_from_me true, whatever limit, chat and contact are.
C7_UnreadNeverFromMe ==
    (ret.op = "get_messages" /\ ret.arg_unread = "True") =>
        \A i \in 1..Len(ret.messages) : ~ret.messages[i].is_from_me

\* an unread=True call returned messages from a chat whose read window held a
\* message of the account owner
C7_Witness ==
    /\ ret.op = "get_messages"
    /\ ret.arg_unread = "True"
    /\ ret.messages # <<>>
    /\ ret.clicked # <<>>
    /\ \E e \in Range(LastN(msgs[ret.clicked[1].conv], ret.arg_limit)) :
          e.out /\ e.text # ""

\* C8: send_message with a chat_name that is not a key of the cache after the forced
\* rebuild returns success false with an error listing exactly the cached names,
\* raises nothing, clicks nothing and types nothing.
C8_UnknownChatRejected ==
    (/\ ret.op = "send_message"
     /\ ret.success # "absent"
     /\ \A i \in 1..Len(ret.pre) : ret.pre[i].key # ret.arg_chat) =>
        /\ ret.success = "false"
        /\ ret.names = [i \in 1..Len(ret.pre) |-> ret.pre[i].key]
        /\ chat_id_cache = ret.pre
        /\ ~ret.raised
        /\ ret.clicked = <<>>
        /\ ~ret.typed

\* a send to a name that is not cached, while other names are
C8_Witness ==
    /\ ret.op = "send_message"
    /\ ret.success = "false"
    /\ Len(ret.pre) = 2
    /\ \A i \in 1..Len(ret.pre) : ret.pre[i].key # ret.arg_chat
    /\ ret.names # <<>>

\* a get_messages(chat=c, limit=1, unread=False) that follows a successful
\* send_message(c, t) with only time passing in between
ReadsBackTheSend ==
    /\ ret.op = "get_messages"
    /\ ret.prev.op = "send_message"
    /\ ret.prev.success = "true"
    /\ ret.arg_chat = ret.prev.chat
    /\ ret.arg_contact = ""
    /\ ret.arg_limit = 1
    /\ ret.arg_unread = "False"

-----------------------------------------------------------------------------
(* The life of a WhatsAppScraper: construction with session restoration,      *)
(* start_session, get_status, get_messages, send_message, close_session.      *)

\* what the browser can show after a navigation
ChatsPage ==
    [url_ok |-> TRUE, indicators |-> {"chat-list"}, qr_elems |-> <<>>,
     rows |-> <<ChatRow("Bob", 1), ChatRow("Alice", 0)>>]
QrPage ==
    [url_ok |-> TRUE, indicators |-> {},
     qr_elems |-> <<[displayed |-> TRUE, size |-> [width |-> 264, height |-> 264],
                     aria |-> "Scan me!"]>>,
     rows |-> <<>>]
LoadingPage == [url_ok |-> TRUE, indicators |-> {}, qr_elems |-> <<>>, rows |-> <<>>]
BlankPage == [url_ok |-> FALSE, indicators |-> {}, qr_elems |-> <<>>, rows |-> <<>>]
Pages == {ChatsPage, QrPage, LoadingPage, BlankPage}

\* the browser shows a new document: every handle held by the program goes stale
Shows(page) ==
    /\ url_ok' = page.url_ok
    /\ indicators' = page.indicators
    /\ qr_elems' = page.qr_elems
    /\ rows' = page.rows
    /\ open_chat' = "none"
    /\ chat_states' = StaleAll(chat_states)
    /\ chat_id_cache' = StaleAll(chat_id_cache)

\* ids of browsers are given out in sequence
NextDriver == Cardinality(quit_drivers) + 1

\* _start_background_monitoring
StartBackgroundMonitoringUnguarded ==
    /\ monitoring_running' = TRUE
    /\ monitoring_thread' = "alive"
    /\ live_monitors' = live_monitors + 1
StartBackgroundMonitoring ==
    IF monitoring_thread = "alive"
    THEN UNCHANGED monitorVars
    ELSE /\ monitoring_running' = TRUE
         /\ monitoring_thread' = "alive"
         /\ live_monitors' = live_monitors + 1

\* the page the i-th restoration check sees when the web client finishes its own
\* reconnection at check `settle` (0: never)
PageAtCheck(i, settle, never_page) ==
    IF settle # 0 /\ i >= settle THEN ChatsPage ELSE never_page

\* _try_restore_session lines 103-132: RestoreAttempts polls, then one more after
\* the refresh; the checks that succeed
RestoreChecks == RestoreAttempts + 1
ChecksThatPass(settle, never_page) ==
    {i \in 1..RestoreChecks :
        LET page == PageAtCheck(i, settle, never_page)
        IN  CheckAuthenticationStatus(1, {}, page.url_ok, page.indicators,
                                      page.qr_elems)}

\* one check_authentication_status call of the restoration, the i-th
RestoreCheck(i, settle, never_page) ==
    LET page == PageAtCheck(i, settle, never_page)
    IN  CheckAuthenticationStatus(1, {}, page.url_ok, page.indicators, page.qr_elems)

\* the polling loop of _try_restore_session (lines 104-118): the outcomes of the
\* checks it makes, `done` being those of the attempts already made
RECURSIVE RestorePollsPastSuccess(_, _, _)
RestorePollsPastSuccess(done, settle, never_page) ==
    IF Len(done) >= RestoreAttempts THEN done
    ELSE RestorePollsPastSuccess(
             Append(done, RestoreCheck(Len(done) + 1, settle, never_page)),
             settle, never_page)

RECURSIVE RestorePolls(_, _, _)
RestorePolls(done, settle, never_page) ==
    IF Len(done) >= RestoreAttempts THEN done
    ELSE LET passed == RestoreCheck(Len(done) + 1, settle, never_page)
         IN  IF passed THEN Append(done, TRUE)
             ELSE RestorePolls(Append(done, FALSE), settle, never_page)

\* _try_restore_session lines 103-132 once the page is loaded: the outcomes of
\* all checks, the number of driver.refresh() calls and the resulting flag
TryRestoreSession(settle, never_page) ==
    LET polls == RestorePolls(<<>>, settle, never_page)
    IN  IF polls # <<>> /\ polls[Len(polls)]
        THEN [outcomes |-> polls, refreshes |-> 0, authenticated |-> TRUE]
        ELSE LET final == RestoreCheck(Len(polls) + 1, settle, never_page)
             IN  [outcomes |-> Append(polls, final), refreshes |-> 1,
                  authenticated |-> final]

\* _update_session_data_on_auth and _update_session_data_on_auth_lost, on the fields
\* of the model
UpdateSessionDataOnAuth(sd) == [sd EXCEPT !.authenticated = TRUE]
UpdateSessionDataOnAuthLostForgets(sd) == sd
UpdateSessionDataOnAuthLost(sd) == [sd EXCEPT !.authenticated = FALSE]

\* _handle_already_authenticated lines 119-121, on the fields of the model
HandleAlreadyAuthenticated(sd) == [sd EXCEPT !.authenticated = TRUE]

\* _save_session_data after the session data became sd
SaveSessionData(sd) == session_data' = sd /\ session_file' = sd

\* AuthenticationManager.__init__: the session data are read from the file
LoadSessionData == session_data' = session_file /\ UNCHANGED session_file

\* whether a Chrome profile directory exists (line 78): a session file that records
\* a login was written by a browser that left its profile behind
ProfileChoices == IF session_file = EmptySession THEN BOOLEAN ELSE {TRUE}

\* WhatsAppScraper.__init__ with _try_restore_session; the clock reads StartTime when
\* the constructor returns
Construct ==
    /\ ~constructed
    /\ constructed' = TRUE
    /\ now' = StartTime
    /\ \E profile_exists \in ProfileChoices, setup_ok \in BOOLEAN, nav_ok \in BOOLEAN,
          settle \in 0..RestoreChecks, never_page \in {QrPage, LoadingPage} :
          IF ~profile_exists \/ ~setup_ok
          THEN /\ ret' = [NoRet EXCEPT !.op = "construct",
                            !.status = IF profile_exists THEN "setup_failed"
                                       ELSE "no_profile"]
               /\ UNCHANGED <<url_ok, indicators, qr_elems, rows, open_chat,
                              chat_states, chat_id_cache, driverVars, authVars,
                              monitorVars, sessionVars>>
          ELSE IF ~nav_ok
          THEN /\ wdm_driver' = 0
               /\ quit_drivers' = {NextDriver}
               /\ mgr_driver' = NextDriver
               /\ LoadSessionData
               /\ ret' = [NoRet EXCEPT !.op = "construct", !.status = "restore_error"]
               /\ UNCHANGED <<url_ok, indicators, qr_elems, rows, open_chat,
                              chat_states, chat_id_cache, is_authenticated,
                              monitorVars>>
          ELSE LET restore == TryRestoreSession(settle, never_page)
                   last == Len(restore.outcomes)
               IN  /\ wdm_driver' = NextDriver
                   /\ mgr_driver' = NextDriver
                   /\ Shows(PageAtCheck(last, settle, never_page))
                   /\ is_authenticated' = restore.authenticated
                   /\ IF restore.authenticated
                      THEN /\ SaveSessionData(UpdateSessionDataOnAuth(session_file))
                           /\ StartBackgroundMonitoring
                      ELSE /\ LoadSessionData
                           /\ UNCHANGED <<monitorVars>>
                   /\ ret' = [NoRet EXCEPT !.op = "construct",
                                !.status = IF restore.authenticated THEN "restored"
                                           ELSE "expired",
                                !.outcomes = restore.outcomes,
                                !.refreshes = restore.refreshes,
                                !.monitor_started = restore.authenticated,
                                !.saved = restore.authenticated]
                   /\ UNCHANGED quit_drivers
    /\ UNCHANGED <<msgs, last_scan_time, started, last_cache_update, updating>>

\* AuthenticationManager.start_session on the page the navigation ended on:
\* [duration, status, success, authenticated]
AuthStartSession(page) ==
    IF "chat-list" \in page.indicators
    THEN [dur |-> 5, status |-> "authenticated", success |-> "true", auth |-> TRUE]
    ELSE IF FindQrCode(page.qr_elems)
    THEN [dur |-> 8, status |-> "qr_ready", success |-> "true", auth |-> FALSE]
    ELSE IF page.url_ok
    THEN [dur |-> 8, status |-> "loading", success |-> "true", auth |-> FALSE]
    ELSE [dur |-> 8, status |-> "error", success |-> "false", auth |-> FALSE]

\* WebDriverManager.setup_driver: max_retries
max_retries == 3

\* what one launch attempt can do: the browser starts and takes the scripts, the
\* browser does not start, or it starts and execute_script raises
LaunchOutcomes == {"ok", "no_browser", "no_script"}

\* the attempt returned from setup_driver
LaunchSucceededNever(outcome) == FALSE
LaunchSucceeded(outcome) == outcome = "ok"

\* the retry loop of setup_driver from attempt index `attempt` (0-based) on:
\* attempts made, whether self.driver was assigned, seconds slept, whether
\* _handle_driver_error raised
RECURSIVE SetupLoop(_, _, _)
SetupLoop(outcomes, attempt, st) ==
    LET tried == [st EXCEPT !.attempts = @ + 1,
                            !.launched = @ \/ outcomes[attempt + 1] # "no_browser"]
    IN  IF LaunchSucceeded(outcomes[attempt + 1])
        THEN tried
        ELSE IF attempt < max_retries - 1
        THEN SetupLoop(outcomes, attempt + 1, [tried EXCEPT !.slept = @ + 2])
        ELSE [tried EXCEPT !.raised = TRUE]

\* WebDriverManager.setup_driver()
SetupDriver(driver, outcomes) ==
    LET none == [attempts |-> 0, launched |-> FALSE, slept |-> 0, raised |-> FALSE]
    IN  IF driver # 0 THEN none ELSE SetupLoop(outcomes, 0, none)

\* start_session line 165: the result that makes start_session start the monitor
StartsMonitorNever(result) == FALSE
StartsMonitor(result) == result.success = "true" /\ result.status = "authenticated"

\* WhatsAppScraper.start_session()
StartSession ==
    /\ CallFits
    /\ started' = TRUE
    /\ \E outcomes \in [1..max_retries -> LaunchOutcomes], page \in Pages :
          /\ wdm_driver # 0 => \A i \in 1..max_retries : outcomes[i] = "ok"
          /\ NextDriver > MaxDrivers => \A i \in 1..max_retries : outcomes[i] = "no_browser"
          /\ LET setup == SetupDriver(wdm_driver, outcomes)
                  base == [NoRet EXCEPT !.op = "start_session", !.at = now,
                                        !.attempts = setup.attempts,
                                        !.outcomes = IF wdm_driver = 0 THEN outcomes
                                                     ELSE <<>>,
                                        !.setup_raised = setup.raised]
                  drv == IF setup.launched THEN NextDriver ELSE wdm_driver
                  mgr == IF mgr_driver = 0 THEN drv ELSE mgr_driver
              IN  IF setup.raised
                  THEN \* setup_driver raised after its retries
                       /\ wdm_driver' = drv
                       /\ ret' = [base EXCEPT !.status = "error", !.success = "false",
                                              !.error = "setup_driver raised"]
                       /\ now' = now + setup.slept
                       /\ IF setup.launched THEN Shows(BlankPage)
                          ELSE UNCHANGED <<url_ok, indicators, qr_elems, rows,
                                           open_chat, chat_states, chat_id_cache>>
                       /\ UNCHANGED <<quit_drivers, authVars,
                                      monitorVars, sessionVars>>
                  ELSE IF mgr # drv
                  THEN \* the managers hold a browser that was quit: driver.get raises
                       /\ wdm_driver' = drv
                       /\ ret' = [base EXCEPT !.status = "error", !.success = "false",
                                              !.error = "driver.get raised",
                                              !.auth_called = TRUE]
                       /\ now' = now + setup.slept
                       /\ IF setup.launched THEN Shows(BlankPage)
                          ELSE UNCHANGED <<url_ok, indicators, qr_elems, rows,
                                           open_chat, chat_states, chat_id_cache>>
                       /\ UNCHANGED <<quit_drivers, authVars,
                                      monitorVars, sessionVars>>
                  ELSE LET r == AuthStartSession(page)
                       IN  /\ wdm_driver' = drv
                           /\ mgr_driver' = mgr
                           /\ Shows(page)
                           /\ now' = now + setup.slept + r.dur
                           /\ is_authenticated' = (r.auth \/ is_authenticated)
                           /\ LET held == IF mgr_driver = 0 THEN session_file
                                          ELSE session_data
                              IN  IF r.auth
                                  THEN SaveSessionData(HandleAlreadyAuthenticated(held))
                                  ELSE /\ session_data' = held
                                       /\ UNCHANGED session_file
                           /\ IF StartsMonitor(r) THEN StartBackgroundMonitoring
                              ELSE UNCHANGED <<monitorVars>>
                           /\ ret' = [base EXCEPT
                                        !.status = r.status, !.success = r.success,
                                        !.error = IF r.success = "true" THEN ""
                                                  ELSE "QR code not found",
                                        !.auth_called = TRUE, !.touched = TRUE,
                                        !.saved = r.auth,
                                        !.monitor_started =
                                            StartsMonitor(r)
                                                /\ monitoring_thread # "alive"]
                           /\ UNCHANGED quit_drivers
    /\ UNCHANGED <<msgs, last_scan_time, constructed, last_cache_update, updating>>

\* AuthenticationManager.get_status line 360
AuthManagerStatusAlwaysReady(actual_auth_status) == "ready"
AuthManagerStatus(actual_auth_status) ==
    IF actual_auth_status THEN "ready" ELSE "not_authenticated"

\* WhatsAppScraper.get_status()
GetStatus ==
    /\ CallFits
    /\ LET base == [NoRet EXCEPT !.op = "get_status", !.at = now]
       IN  IF mgr_driver = 0
           THEN /\ ret' = [base EXCEPT !.status = "not_initialized",
                                       !.authenticated = FALSE]
                /\ UNCHANGED <<is_authenticated, now, sessionVars>>
           ELSE LET actual_auth_status == Authed
                IN  /\ is_authenticated' = actual_auth_status
                    /\ IF actual_auth_status # is_authenticated
                       THEN SaveSessionData(
                                IF actual_auth_status
                                THEN UpdateSessionDataOnAuth(session_data)
                                ELSE UpdateSessionDataOnAuthLost(session_data))
                       ELSE UNCHANGED sessionVars
                    /\ now' = now + AuthDur
                    /\ ret' = IF mgr_driver \in quit_drivers
                              THEN [base EXCEPT
                                      !.status = "error",
                                      !.authenticated = FALSE,
                                      !.checks = 1,
                                      !.check_passed = actual_auth_status,
                                      !.saved = actual_auth_status # is_authenticated]
                              ELSE [base EXCEPT
                                      !.status = AuthManagerStatus(actual_auth_status),
                                      !.authenticated = actual_auth_status,
                                      !.checks = 1,
                                      !.check_passed = actual_auth_status,
                                      !.saved = actual_auth_status # is_authenticated,
                                      !.session_info = session_data']
    /\ UNCHANGED <<pageVars, driverVars, mgr_driver, scanVars, scraperVars, updating>>

\* _stop_background_monitoring: join(timeout=5)
JoinTimeout == 5

\* WebDriverManager.quit(): what becomes of self.driver, whether driver.quit() ran and
\* whether _cleanup_chrome_processes ran
QuitUnguarded(driver) == [driver |-> 0, quit |-> TRUE, cleanup |-> TRUE]
Quit(driver) ==
    IF driver # 0 THEN [driver |-> 0, quit |-> TRUE, cleanup |-> TRUE]
    ELSE [driver |-> driver, quit |-> FALSE, cleanup |-> FALSE]

\* WhatsAppScraper.close_session(): the join returns when the monitor leaves its loop
\* within the timeout, or after the timeout with the monitor still asleep
CloseSession ==
    /\ CallFits
    /\ monitoring_running' = FALSE
    /\ \E joined \in BOOLEAN :
          /\ monitoring_thread # "alive" => joined
          /\ IF monitoring_thread = "alive" /\ joined
             THEN monitoring_thread' = "dead" /\ live_monitors' = live_monitors - 1
             ELSE UNCHANGED <<monitoring_thread, live_monitors>>
          /\ now' = IF joined THEN now ELSE now + JoinTimeout
          /\ LET q == Quit(wdm_driver)
             IN  /\ wdm_driver' = q.driver
                 /\ IF q.quit
                    THEN /\ quit_drivers' = quit_drivers \cup {wdm_driver}
                         /\ Shows(BlankPage)
                    ELSE UNCHANGED <<quit_drivers, url_ok, indicators, qr_elems, rows,
                                     open_chat, chat_states, chat_id_cache>>
                 /\ ret' = [NoRet EXCEPT !.op = "close_session", !.success = "true",
                                         !.status = "Session closed", !.at = now,
                                         !.killed = q.cleanup, !.joined = joined]
    /\ UNCHANGED <<msgs, authVars, last_scan_time, constructed, started,
                   last_cache_update, updating, sessionVars>>

\* the monitor thread leaves its loop (line 505)
MonitorStaysInLoop ==
    /\ monitoring_thread = "alive"
    /\ ~monitoring_running \/ ~is_authenticated
    /\ ret' = NoRet
    /\ UNCHANGED <<pageVars, driverVars, authVars, scanVars, scraperVars, now,
                   updating, sessionVars>>
MonitorExits ==
    /\ monitoring_thread = "alive"
    /\ ~monitoring_running \/ ~is_authenticated
    /\ monitoring_thread' = "dead"
    /\ live_monitors' = live_monitors - 1
    /\ ret' = NoRet
    /\ UNCHANGED <<pageVars, driverVars, authVars, scanVars, constructed, started,
                   chat_id_cache, last_cache_update, monitoring_running, now,
                   updating, sessionVars>>

\* TickStep later the web client shows something else: the QR code was scanned, the
\* phone logged the session out, the page reloads
PageTurns ==
    /\ wdm_driver # 0
    /\ now < StartTime + MaxElapsed
    /\ \E page \in Pages : page.indicators # indicators /\ Shows(page)
    /\ now' = now + TickStep
    /\ ret' = NoRet
    /\ UNCHANGED <<msgs, driverVars, authVars, last_scan_time, constructed, started,
                   last_cache_update, monitorVars, updating, sessionVars>>

\* before construction
Init ==
    /\ url_ok = FALSE
    /\ indicators = {}
    /\ qr_elems = <<>>
    /\ rows = <<>>
    /\ msgs = [c \in Convs |-> <<[text |-> "hi", out |-> FALSE]>>]
    /\ open_chat = "none"
    /\ wdm_driver = 0
    /\ quit_drivers = {}
    /\ mgr_driver = 0
    /\ is_authenticated = FALSE
    /\ chat_states = <<>>
    /\ last_scan_time = 0
    /\ constructed = FALSE
    /\ started = FALSE
    /\ chat_id_cache = <<>>
    /\ last_cache_update = 0
    /\ monitoring_running = FALSE
    /\ monitoring_thread = "none"
    /\ live_monitors = 0
    /\ now = 0
    /\ updating = IdleUpdate
    /\ session_data = EmptySession
    /\ session_file \in SessionFiles
    /\ ret = NoRet

Next ==
    \/ Construct
    \/ StartSession
    \/ GetStatus
    \/ GetMessagesAnytime
    \/ SendMessageAnytime
    \/ CloseSession
    \/ MonitorCycle
    \/ MonitorExits
    \/ PageTurns
    \/ Tick

Spec == Init /\ [][Next]_vars

\* the browser the WebDriverManager holds is running
DriverLive == wdm_driver # 0 /\ wdm_driver \notin quit_drivers

\* C2: whenever the scraper reports is_authenticated, its WebDriverManager holds a
\* live driver; this holds after construction and after every start_session,
\* get_status, get_messages, send_message and close_session.
C2_AuthenticatedImpliesLiveDriver ==
    (constructed /\ mgr_driver # 0 /\ is_authenticated) => DriverLive

\* C9: get_status() before any start_session reports authenticated false and status
\* not_initialized or not_authenticated, whatever the constructor's restoration found.
C9_StatusBeforeStartNeverAuthenticated ==
    (ret.op = "get_status" /\ ~started) =>
        /\ ret.authenticated = FALSE
        /\ ret.status \in {"not_initialized", "not_authenticated"}

\* C9 as the code has it: before any start_session, get_status() reports
\* not_initialized exactly when the constructor created no managers, error exactly
\* when the browser the constructor launched has been quit, and otherwise what the
\* authoritative check finds on that browser's page: ready with authenticated true,
\* or not_authenticated with authenticated false.
C9_StatusBeforeStartFollowsRestoration ==
    (ret.op = "get_status" /\ ~started) =>
        /\ ret.authenticated = (ret.status = "ready")
        /\ (ret.status = "not_initialized") = (mgr_driver = 0)
        /\ (ret.status = "error") = (mgr_driver # 0 /\ mgr_driver \in quit_drivers)
        /\ (ret.status = "ready") =
               (/\ DriverLive
                /\ mgr_driver = wdm_driver
                /\ url_ok
                /\ CheckStrongAuthIndicators(indicators))
        /\ ret.status \in {"not_initialized", "error", "ready", "not_authenticated"}
        /\ is_authenticated = ret.authenticated

\* get_status() right after a construction that restored the session
C9_Witness ==
    /\ ret.op = "get_status"
    /\ ~started
    /\ ret.status = "ready"
    /\ ret.authenticated
    /\ monitoring_thread = "alive"

-----------------------------------------------------------------------------
(* Contracts of the read paths, start_session and the error payloads. *)

\* a get_messages(unread=True) call without chat and contact on an authenticated
\* session
UnreadFromAnyChat ==
    /\ ret.op = "get_messages"
    /\ ret.arg_unread = "True"
    /\ ret.arg_chat = ""
    /\ ret.arg_contact = ""
    /\ ret.success # "absent"

\* C11: get_messages(unread=True) with no chat and no contact opens only the cached
\* chat with the smallest order among those whose cached unread_count > 0; its name
\* is the result's chat_name; chats with unread_count 0 are never opened; when no
\* cached chat has unread_count > 0 nothing is opened and the message list is empty.
C11_UnreadOpensFirstUnreadChat ==
    UnreadFromAnyChat =>
        LET cache == chat_id_cache
            unread_ix == {i \in 1..Len(cache) : cache[i].unread_count > 0}
        IN  IF unread_ix = {}
            THEN ret.clicked = <<>> /\ ret.messages = <<>>
            ELSE LET first == CHOOSE i \in unread_ix :
                                  \A j \in unread_ix : cache[i].order <= cache[j].order
                 IN  /\ ret.chat_name = cache[first].key
                     /\ Len(ret.clicked) <= 1
                     /\ \A k \in 1..Len(ret.clicked) :
                            ret.clicked[k] = cache[first].dom_element


\* start_session navigated and the page it ended on shows a login QR code and no
\* strong indicator
QrVisibleAtStart ==
    /\ ret.op = "start_session" /\ ret.touched
    /\ indicators = {} /\ FindQrCode(qr_elems)

\* C12: start_session() on a page that shows a displayed login QR code larger than
\* 50 px both ways and no strong indicator returns success with status 'qr_ready',
\* leaves is_authenticated false, writes no session data and starts no monitor.
C12_QrReadyLeavesUnauthenticated ==
    QrVisibleAtStart =>
        /\ ret.success = "true" /\ ret.status = "qr_ready"
        /\ ~is_authenticated
        /\ ~ret.saved
        /\ ~ret.monitor_started

\* the public operations of the orchestrator
PublicOps == {"start_session", "get_status", "get_messages", "send_message",
              "close_session"}

\* C13: in every reachable state of the orchestrator, the freshly constructed
\* scraper without managers and the closed one included, each public operation
\* returns a result object and lets no exception reach the caller.
C13_NoOperationRaises ==
    ret.op \in PublicOps => ~ret.raised

\* a get_messages or send_message call that returned to its caller
MessageCall == ret.op \in {"get_messages", "send_message"} /\ ~ret.raised

\* the call named a chat that the cache it consulted does not hold
TargetNotCached ==
    ret.check_passed /\ ret.arg_chat # "" /\ ret.arg_chat \notin DictKeys(chat_id_cache)

\* every click the call made on a cached row raised
NothingOpened == ret.check_passed /\ ret.failed /\ ret.clicked = <<>>

ReportsFailure == ret.success = "false" /\ ret.error # ""

\* C14: a get_messages or send_message call that failed (not authenticated, target
\* chat not in the cache, or an exception while opening or reading a chat) returns
\* success false with a non-empty error; success true is returned only when the
\* read or send was carried out without error.
C14_FailuresReportFalse ==
    MessageCall =>
        /\ ~ret.check_passed => ReportsFailure
        /\ TargetNotCached => ReportsFailure
        /\ NothingOpened => ReportsFailure
        /\ ret.success = "true" =>
               /\ ret.check_passed /\ ~NothingOpened
               /\ ret.op = "send_message" => ret.typed

\* C15: when the authoritative check returns false, get_messages and send_message
\* return the 'Not authenticated' error after that one check and change nothing:
\* no scan, no cache rebuild, no new last_cache_update, no click, no typed text.
C15_NotAuthenticatedChangesNothing ==
    [][(ret'.op \in {"get_messages", "send_message"} /\ ~ret'.raised
           /\ ~ret'.check_passed)
        => /\ ret'.error = "Not authenticated" /\ ret'.checks = 1
           /\ ~ret'.scanned /\ ret'.clicked = <<>> /\ ~ret'.typed
           /\ UNCHANGED <<url_ok, rows, msgs, open_chat, chat_states, last_scan_time,
                          chat_id_cache, last_cache_update, is_authenticated>>]_vars

\* a call was refused as not authenticated while the cache held chats
C15_Witness ==
    /\ MessageCall /\ ret.checks = 1 /\ ~ret.check_passed
    /\ chat_id_cache # <<>> /\ last_cache_update # 0

\* C16: when the cached row handle of the named chat is stale, so that its click
\* raises, get_messages(chat=X) and send_message(X, text) report failure (success
\* false with an error string) and raise nothing.
C16_StaleHandleReportsFailure ==
    (ret.op \in {"get_messages", "send_message"} /\ ret.arg_chat # "" /\ ret.failed)
        => ReportsFailure /\ ~ret.raised

\* start_session found no driver and ran the launch loop of setup_driver
SetupRan == ret.op = "start_session" /\ ret.outcomes # <<>>

\* C17: setup_driver() makes at most 3 launch attempts, stops at the first one that
\* succeeds and raises only after the third has failed; when it raises inside
\* start_session(), start_session returns success false with an error and status
\* 'error', raises nothing, and the authenticator is not invoked.
C17_SetupRetriesThenErrorResult ==
    SetupRan =>
        /\ ret.attempts \in 1..3
        /\ \A i \in 1..(ret.attempts - 1) : ret.outcomes[i] # "ok"
        /\ ~ret.setup_raised => ret.outcomes[ret.attempts] = "ok"
        /\ ret.setup_raised => ret.attempts = 3 /\ ret.outcomes[3] # "ok"
        /\ ret.setup_raised =>
               /\ ret.success = "false" /\ ret.status = "error" /\ ret.error # ""
               /\ ~ret.raised /\ ~ret.auth_called

\* all three launches failed inside start_session
C17_Witness ==
    /\ SetupRan /\ ret.setup_raised /\ ret.attempts = 3
    /\ ret.success = "false" /\ ret.status = "error"

-----------------------------------------------------------------------------
(* The background monitor under fair scheduling of its thread. *)

\* the orchestrator's lifecycle calls and the monitor thread, without the message
\* operations
NextLive ==
    \/ Construct
    \/ StartSession
    \/ GetStatus
    \/ CloseSession
    \/ MonitorCycle
    \/ MonitorExits
    \/ PageTurns
    \/ Tick

\* the thread, once started, is scheduled: a loop test that stays false is taken
SpecLive == Init /\ [][NextLive]_vars /\ WF_vars(MonitorExits)

MonitorAlive == monitoring_thread = "alive"

\* a scan of the chat list made by the monitor thread
MonitorScans == ret'.op = "none" /\ last_scan_time' # last_scan_time

\* the monitor scans only while it lives and both loop conditions hold
MonitorScansOnlyWhileWanted ==
    [][MonitorScans => MonitorAlive /\ monitoring_running /\ is_authenticated]_vars

-----------------------------------------------------------------------------
(* _update_chat_cache statement by statement, next to a second thread that    *)
(* reads chat_id_cache (the membership test and key listing of send_message,  *)
(* the iteration of _determine_target_chat) and to the monitor's scans.       *)

\* line 255: chat_states = self.chat_discovery.scan_chat_list()
UpdateScans ==
    /\ updating.pc = "idle"
    /\ now < StartTime + MaxElapsed
    /\ LET w == ScanW(World)
       IN  /\ Commit(w)
           /\ updating' = [pc |-> "scanned", todo |-> w.chat_states,
                           before |-> chat_id_cache,
                           after |-> BuildCache(w.chat_states),
                           scan |-> w.chat_states,
                           fresh |-> w.scanned,
                           listed |-> {ExtractChatName(r) : r \in Range(w.rows)}]
    /\ ret' = NoRet
    /\ UNCHANGED <<indicators, qr_elems, driverVars, authVars, constructed, started,
                   monitorVars, sessionVars>>

\* lines 258-262: self.chat_id_cache.clear(), then sorted(chat_states.items(), ...)
UpdateClearsNothing ==
    /\ updating.pc = "scanned"
    /\ updating' = [updating EXCEPT !.pc = "filling", !.todo = SortByOrder(@)]
    /\ ret' = NoRet
    /\ UNCHANGED <<pageVars, driverVars, authVars, scanVars, constructed, started,
                   chat_id_cache, last_cache_update, monitorVars, now, sessionVars>>

UpdateClears ==
    /\ updating.pc = "scanned"
    /\ chat_id_cache' = <<>>
    /\ updating' = [updating EXCEPT !.pc = "filling", !.todo = SortByOrder(@)]
    /\ ret' = NoRet
    /\ UNCHANGED <<pageVars, driverVars, authVars, scanVars, constructed, started,
                   last_cache_update, monitorVars, now, sessionVars>>

\* lines 264-273: one turn of the for loop
UpdatePuts ==
    /\ updating.pc = "filling" /\ updating.todo # <<>>
    /\ chat_id_cache' = FillCache(<<Head(updating.todo)>>, chat_id_cache)
    /\ updating' = [updating EXCEPT !.todo = Tail(@)]
    /\ ret' = NoRet
    /\ UNCHANGED <<pageVars, driverVars, authVars, scanVars, constructed, started,
                   last_cache_update, monitorVars, now, sessionVars>>

\* the loop is over; the caller stores last_cache_update (lines 243, 249)
UpdateReturns ==
    /\ updating.pc = "filling" /\ updating.todo = <<>>
    /\ updating' = IdleUpdate
    /\ last_cache_update' = now
    /\ ret' = NoRet
    /\ UNCHANGED <<pageVars, driverVars, authVars, scanVars, constructed, started,
                   chat_id_cache, monitorVars, now, sessionVars>>

\* another request thread looks at self.chat_id_cache (lines 287, 453)
ReadCache ==
    /\ ret' = [NoRet EXCEPT !.op = "read_cache", !.returned = chat_id_cache]
    /\ ret' # ret
    /\ UNCHANGED <<pageVars, driverVars, authVars, scanVars, scraperVars, updating,
                   now, sessionVars>>

NextCache ==
    \/ UpdateScans
    \/ UpdateClears
    \/ UpdatePuts
    \/ UpdateReturns
    \/ ReadCache
    \/ MonitorCycle
    \/ MessageArrives
    \/ ChatLeaves
    \/ Tick

\* an authenticated session as in InitMsg, in which the cache either was never built
\* or was built from a scan of the present chat list two scan intervals ago
InitCache ==
    /\ url_ok = TRUE
    /\ indicators = {"chat-list"}
    /\ qr_elems = <<>>
    /\ rows \in {<<ChatRow("Bob", 1), ChatRow("Alice", 0)>>,
                 <<ChatRow("Alice", 1), ChatRow("Bob", 0)>>,
                 <<ChatRow("Alice", 0), ChatRow("Bob", 1), NamesakeRow(1)>>}
    /\ msgs \in {[c \in Convs \cup {Namesake} |->
                        IF c = "Alice" THEN h ELSE <<Head(h)>>] :
                    h \in InitHistories}
    /\ open_chat = "none"
    /\ wdm_driver = 1
    /\ quit_drivers = {}
    /\ mgr_driver = 1
    /\ is_authenticated = TRUE
    /\ last_scan_time \in {0, StartTime - 2 * scan_interval}
    /\ chat_states = IF last_scan_time = 0 THEN <<>>
                     ELSE ScanRows(rows, <<>>, 0, last_scan_time)
    /\ constructed = TRUE
    /\ started = TRUE
    /\ chat_id_cache = BuildCache(chat_states)
    /\ last_cache_update = last_scan_time
    /\ monitoring_running = TRUE
    /\ monitoring_thread = "alive"
    /\ live_monitors = 1
    /\ now = StartTime
    /\ updating = IdleUpdate
    /\ session_data = [EmptySession EXCEPT !.authenticated = TRUE]
    /\ session_file = [EmptySession EXCEPT !.authenticated = TRUE]
    /\ ret = NoRet

SpecCache == InitCache /\ [][NextCache]_vars

\* the complete mappings a reader may see at this moment
CompleteMappings ==
    IF updating.pc = "idle" THEN {chat_id_cache}
    ELSE {updating.before, updating.after}

\* C22: chat cache rebuilds are atomic replacements: a thread that reads the cache
\* while another rebuilds it sees the complete previous mapping or the complete new
\* one, never an empty or partially filled one.
C22_ReaderSeesCompleteMapping ==
    ret.op = "read_cache" => ret.returned \in CompleteMappings

-----------------------------------------------------------------------------
(* Contracts of the managers' page handle, of session restoration, of the     *)
(* saved session data, of the cache contents and of target resolution.        *)

\* C23: whenever the Authenticator, Discovery Engine and Reader/Writer exist and the
\* Driver Controller holds a browser, the page handle of the managers is that
\* browser; in particular after close_session() followed by start_session(), and
\* after a restoration that failed with an exception followed by start_session().
C23_ManagersHoldCurrentDriver ==
    (mgr_driver # 0 /\ wdm_driver # 0) => mgr_driver = wdm_driver

RestorationRan == ret.op = "construct" /\ ret.status \in {"restored", "expired"}

\* C24: a restoration that reached its checks ran the fixed schedule: between 1 and
\* 13 checks, every check but the last one failed (it stops at the first success),
\* the page was refreshed exactly once if and only if the first 12 checks failed,
\* at most one check followed the refresh, a run that ended on a failed check made
\* all 13, and a run that ended on a successful check left is_authenticated true
\* with the monitor started, any other run leaving is_authenticated false.
C24_RestorationFollowsSchedule ==
    RestorationRan =>
        LET n == Len(ret.outcomes)
        IN  /\ n \in 1..13
            /\ \A i \in 1..(n - 1) : ~ret.outcomes[i]
            /\ ret.refreshes = (IF n > 12 THEN 1 ELSE 0)
            /\ ~ret.outcomes[n] => n = 13
            /\ is_authenticated = ret.outcomes[n]
            /\ ret.outcomes[n] =>
                   /\ ret.status = "restored"
                   /\ ret.monitor_started
                   /\ monitoring_running
                   /\ MonitorAlive

C24_Witness ==
    /\ RestorationRan
    /\ Len(ret.outcomes) = 13
    /\ ret.refreshes = 1
    /\ is_authenticated
    /\ MonitorAlive

RestorationGaveUp == ret.op = "construct" /\ ret.status \in {"expired", "restore_error"}

\* C25: when the restoration gave up (all 13 checks failed, or it was aborted by an
\* exception), the session data hold a non-empty restore_error, which is what
\* get_status() reports in session_info, and is_authenticated is false.
C25_GivingUpRecordsRestoreError ==
    RestorationGaveUp => session_data.restore_error # "" /\ ~is_authenticated

\* a step that changes AuthenticationManager.is_authenticated
FlagChanges == is_authenticated' # is_authenticated

RebuildDone == updating.pc = "filling" /\ updating.todo = <<>>

\* the cache holds exactly the names of the mapping the rebuild's scan_chat_list call
\* returned, each with the handle, unread count and order of a row of that mapping
CacheMirrorsScan ==
    /\ {chat_id_cache[i].key : i \in 1..Len(chat_id_cache)}
           = {updating.scan[j].name : j \in 1..Len(updating.scan)} \ {"Unknown"}
    /\ \A i \in 1..Len(chat_id_cache) :
          \E j \in 1..Len(updating.scan) :
             /\ updating.scan[j].name = chat_id_cache[i].key
             /\ updating.scan[j].dom_element = chat_id_cache[i].dom_element
             /\ updating.scan[j].unread_count = chat_id_cache[i].unread_count
             /\ updating.scan[j].order = chat_id_cache[i].order

\* every cached name was in the chat list when the rebuild called scan_chat_list
CacheOnlyListed ==
    \A i \in 1..Len(chat_id_cache) : chat_id_cache[i].key \in updating.listed

------------------------------------------------------------------------------
(* SpecTarget: _determine_target_chat over caches of up to MaxCached names and  *)
(* over the chat and contact arguments.                                         *)

MaxCached == 3
TargetNames == {"Alice", "Bob", "Bobby", "Bob Group"}
TargetChatArgs == {"", "Bob", "Zed"}
TargetContactArgs == {"", "ali", "b", "BOB", "zed"}

\* the chat lists of up to MaxCached distinct names
NameLists ==
    {ns \in SeqsUpTo(TargetNames, MaxCached) :
        \A i, j \in 1..Len(ns) : i # j => ns[i] # ns[j]}

\* an authenticated session whose cache was just built from a scan of the chat list
InitTarget ==
    /\ url_ok = TRUE
    /\ indicators = {"chat-list"}
    /\ qr_elems = <<>>
    /\ \E ns \in NameLists : rows = [i \in 1..Len(ns) |-> ChatRow(ns[i], 0)]
    /\ msgs = [c \in Convs \cup {Namesake} |-> <<>>]
    /\ open_chat = "none"
    /\ wdm_driver = 1
    /\ quit_drivers = {}
    /\ mgr_driver = 1
    /\ is_authenticated = TRUE
    /\ last_scan_time = StartTime
    /\ chat_states = ScanRows(rows, <<>>, 0, StartTime)
    /\ constructed = TRUE
    /\ started = TRUE
    /\ chat_id_cache = BuildCache(chat_states)
    /\ last_cache_update = StartTime
    /\ monitoring_running = TRUE
    /\ monitoring_thread = "alive"
    /\ live_monitors = 1
    /\ now = StartTime
    /\ updating = IdleUpdate
    /\ session_data = [EmptySession EXCEPT !.authenticated = TRUE]
    /\ session_file = [EmptySession EXCEPT !.authenticated = TRUE]
    /\ ret = NoRet

\* self._determine_target_chat(chat, contact), line 221
DetermineTarget ==
    /\ \E chat \in TargetChatArgs, contact \in TargetContactArgs :
          ret' = [NoRet EXCEPT
                    !.op = "determine_target_chat",
                    !.arg_chat = chat, !.arg_contact = contact,
                    !.chat_name = DetermineTargetChat(chat_id_cache, chat, contact)]
    /\ UNCHANGED <<pageVars, driverVars, authVars, scanVars, scraperVars, updating,
                   now, sessionVars>>

NextTarget == DetermineTarget

SpecTarget == InitTarget /\ [][NextTarget]_vars

\* the positions of the cached names that contain the contact and not 'group',
\* letter case aside
Qualifying(contact) ==
    {i \in 1..Len(chat_id_cache) :
        /\ IsSubstring(Lower(contact), Lower(chat_id_cache[i].key))
        /\ ~IsSubstring(<<"g", "r", "o", "u", "p">>, Lower(chat_id_cache[i].key))}

------------------------------------------------------------------------------
(* The unread-only read of a named chat, and the browser handle of the       *)
(* WebDriverManager.                                                          *)

\* get_messages(chat=X, unread=True) on an authenticated session with X in the cache
UnreadOfCachedChat ==
    /\ ret.op = "get_messages" /\ ~ret.raised
    /\ ret.check_passed
    /\ ret.arg_unread = "True"
    /\ ret.arg_chat # ""
    /\ ~TargetNotCached

C30_DriverHandleOnlyWhileUsable ==
    /\ (ret.op = "start_session" /\ ret.setup_raised) => wdm_driver = 0
    /\ wdm_driver \notin quit_drivers
    /\ ret.op = "close_session" => wdm_driver = 0

=============================================================================
